---- MODULE Spec2Model ----
(***************************************************************************)
(* ttalk-lang: the bytecode compiler (compiler.ts) and the stack VM        *)
(* (vm.ts).  A program (the parser's AstNode[]) is compiled by             *)
(* Compiler.compile() into a Module {constants, code}; VM.run() executes   *)
(* it one handleInstr() at a time.                                         *)
(*                                                                         *)
(* Conventions.  Indices (ip, slots, pool indices, stackOffset) are the    *)
(* code's 0-based numbers; element i of a JS array a is a[i + 1] here.     *)
(* A JS string is the sequence of its characters, so that rendering a      *)
(* number (`${n}`) is a real conversion to decimal digits.  A thrown       *)
(* string is recorded in an err field, with the object left as it was at   *)
(* the throw.                                                              *)
(***************************************************************************)
EXTENDS Integers, Sequences, FiniteSets, TLC

(***************************************************************************)
(* Opcode enum and opcodeMeta                                              *)
(***************************************************************************)
const0 == 0
const1 == 1
const2 == 2
constant == 3
neg == 4
add == 5
sub == 6
load == 7
store == 8
print == 9
invoke == 10
pop == 11
nil == 12
return == 13

\* opcodeMeta[op].args, indexed by the opcode's number
opcodeMeta ==
  [op \in const0..return |->
     IF op \in {constant, load, store, invoke} THEN 1 ELSE 0]

(***************************************************************************)
(* Value                                                                   *)
(***************************************************************************)
nilValue == [type |-> "nil"]
NumberValue(n) == [type |-> "number", num |-> n]
StringValue(s) == [type |-> "string", str |-> s]
FunctionValue(name, code) == [type |-> "function", name |-> name, code |-> code]

(***************************************************************************)
(* AstNode (ast.ts) and isExpr                                             *)
(***************************************************************************)
IntLit(v) == [type |-> "intLit", value |-> v]
StringLit(s) == [type |-> "stringLit", strValue |-> s]
Ident(n) == [type |-> "ident", name |-> n]
Unary(op, e) == [type |-> "unary", op |-> op, expr |-> e]
Binary(op, l, r) == [type |-> "binary", op |-> op, left |-> l, right |-> r]
Invoke(t, as) == [type |-> "invoke", target |-> t, args |-> as]
ValDecl(n, e) == [type |-> "valDecl", ident |-> Ident(n), init |-> e]
FuncDecl(n, ps, b) ==
  [type |-> "funcDecl", fname |-> Ident(n), params |-> ps, body |-> b]
PrintStmt(e) == [type |-> "print", expr |-> e]

isExpr(node) ==
  node.type \in {"intLit", "stringLit", "ident", "unary", "binary", "invoke"}

(***************************************************************************)
(* Compiler.  cs is the Compiler object: constants, locals, code, depth;   *)
(* nextRef numbers the objects it allocates (a pool entry is the object    *)
(* [ref, val]); err is the thrown string's kind ("" while none is thrown)  *)
(* and errName the identifier it names.                                    *)
(***************************************************************************)
NewCompiler ==
  [constants |-> <<>>, locals |-> <<>>, code |-> <<>>, depth |-> 0,
   nextRef |-> 1, err |-> "", errName |-> ""]

emit(cs, bytes) == [cs EXCEPT !.code = @ \o bytes]

throw(cs, kind, name) == [cs EXCEPT !.err = kind, !.errName = name]

\* lodash eq: SameValueZero, which on two objects is reference identity
eq(value, other) == value.ref = other.ref

\* an object literal { type: ... }: a new object holding val
NewObject(cs, val) == [ref |-> cs.nextRef, val |-> val]

\* addConstant: [cs |-> the compiler afterwards, idx |-> the returned index]
addConstant(cs, value) ==
  LET hits == {i \in 1..Len(cs.constants) : eq(value, cs.constants[i])}
  IN  IF hits # {}
        THEN [cs |-> cs,
              idx |-> (CHOOSE i \in hits : \A j \in hits : i <= j) - 1]
        ELSE [cs |-> [cs EXCEPT !.constants = Append(@, value)],
              idx |-> Len(cs.constants)]

\* the constant(i) emission shared by the three callers of addConstant:
\* build the object, add it, emit Opcode.constant with the index
emitConstant(cs, val) ==
  LET obj == NewObject(cs, val)
      r == addConstant([cs EXCEPT !.nextRef = @ + 1], obj)
  IN  emit(r.cs, <<constant, r.idx>>)

visitIntLit(cs, node) ==
  IF node.value = 0
    THEN emit(cs, <<const0 + node.value>>)
    ELSE emitConstant(cs, NumberValue(node.value))

visitStringLit(cs, node) == emitConstant(cs, StringValue(node.strValue))

\* this.locals.filter(({ depth }) => depth === this.depth)
localsAtDepth(cs) == SelectSeq(cs.locals, LAMBDA l : l.depth = cs.depth)

\* visitIdent searching the locals of every depth
visitIdent_anyDepth(cs, node) ==
  LET locals == cs.locals
      hits == {i \in 1..Len(locals) : locals[i].name = node.name}
  IN  IF hits # {}
        THEN emit(cs, <<load, (CHOOSE i \in hits : \A j \in hits : j <= i) - 1>>)
        ELSE throw(cs, "Unknown identifier", node.name)

visitIdent(cs, node) ==
  LET locals == localsAtDepth(cs)
      hits == {i \in 1..Len(locals) : locals[i].name = node.name}
  IN  IF hits # {}
        THEN emit(cs, <<load, (CHOOSE i \in hits : \A j \in hits : j <= i) - 1>>)
        ELSE throw(cs, "Unknown identifier", node.name)

\* alreadyExists comparing the name alone
alreadyExists_anyDepth(cs, name) ==
  \E i \in 1..Len(cs.locals) : cs.locals[i].name = name

alreadyExists(cs, name) ==
  \E i \in 1..Len(cs.locals) :
    cs.locals[i].name = name /\ cs.locals[i].depth = cs.depth

pushLocal(cs, name) ==
  [cs EXCEPT !.locals = Append(@, [name |-> name, depth |-> cs.depth])]

RECURSIVE visit(_, _)
RECURSIVE visitEach(_, _, _)
RECURSIVE compileBlockFrom(_, _, _)

\* for (const n of nodes) this.visit(n), from element i on; a throw ends it
visitEach(cs, nodes, i) ==
  IF i > Len(nodes) \/ cs.err # "" THEN cs
  ELSE visitEach(visit(cs, nodes[i]), nodes, i + 1)

visitUnary(cs, node) ==
  LET c1 == visit(cs, node.expr)
  IN  IF c1.err # "" THEN c1
      ELSE IF node.op = "minus" THEN emit(c1, <<neg>>)
      ELSE throw(c1, "Unknown operator", node.op)

visitBinary(cs, node) ==
  LET c1 == visitEach(cs, <<node.left, node.right>>, 1)
  IN  IF c1.err # "" THEN c1
      ELSE IF node.op = "plus" THEN emit(c1, <<add>>)
      ELSE IF node.op = "minus" THEN emit(c1, <<sub>>)
      ELSE throw(c1, "Unknown operator", node.op)

\* visitInvoke emitting the invoke opcode without its operand
visitInvoke_noOperand(cs, node) ==
  LET c1 == visitEach(emit(cs, <<nil>>), node.args \o <<node.target>>, 1)
  IN  IF c1.err # "" THEN c1
      ELSE emit(c1, <<invoke>>)

visitInvoke(cs, node) ==
  LET c1 == visitEach(emit(cs, <<nil>>), node.args \o <<node.target>>, 1)
  IN  IF c1.err # "" THEN c1
      ELSE emit(c1, <<invoke, Len(node.args)>>)

visitValDecl(cs, node) ==
  IF alreadyExists(cs, node.ident.name)
    THEN throw(cs, "Duplicate identifier", node.ident.name)
    ELSE LET c1 == visit(cs, node.init)
         IN  IF c1.err # "" THEN c1 ELSE pushLocal(c1, node.ident.name)

\* the loop of compileBlock from statement i on
compileBlockFrom(cs, nodes, i) ==
  IF i > Len(nodes) \/ cs.err # "" THEN cs
  ELSE LET c1 == visit(cs, nodes[i])
           isLast == i = Len(nodes)
           isExpression == isExpr(nodes[i])
           c2 == IF isExpression /\ ~isLast THEN emit(c1, <<pop>>) ELSE c1
           c3 == IF ~isExpression /\ isLast THEN emit(c2, <<nil>>) ELSE c2
       IN  IF c1.err # "" THEN c1 ELSE compileBlockFrom(c3, nodes, i + 1)

compileBlock(cs, nodes) == compileBlockFrom(cs, nodes, 1)

\* the epilogue of visitFuncDecl: store 0, one pop per local of the depth
\* but #ret, the locals of the depth dropped from this.locals, return
funcEpilogue(cs) ==
  LET numLocals == Len(localsAtDepth(cs))
      pops == [i \in 1..(numLocals - 1) |-> pop]
  IN  [cs EXCEPT
         !.code = @ \o <<store, 0>> \o pops \o <<return>>,
         !.locals = SubSeq(@, 1, Len(@) - numLocals)]

visitFuncDecl(cs, node) ==
  IF alreadyExists(cs, node.fname.name)
    THEN throw(cs, "Duplicate identifier", node.fname.name)
    ELSE
      LET inner == [cs EXCEPT
                      !.code = <<>>,
                      !.depth = @ + 1,
                      !.locals = @ \o <<[name |-> "#ret", depth |-> cs.depth + 1]>>
                                   \o [i \in 1..Len(node.params) |->
                                         [name |-> node.params[i].name,
                                          depth |-> cs.depth + 1]]]
          body == compileBlock(inner, node.body)
          done == funcEpilogue(body)
          outer == pushLocal([done EXCEPT !.code = cs.code, !.depth = cs.depth],
                             node.fname.name)
      IN  IF body.err # "" THEN body
          ELSE emitConstant(outer, FunctionValue(node.fname.name, done.code))

visitPrint(cs, node) ==
  LET c1 == visit(cs, node.expr)
  IN  IF c1.err # "" THEN c1 ELSE emit(c1, <<print>>)

\* Visitor.visit
visit(cs, node) ==
  CASE node.type = "intLit" -> visitIntLit(cs, node)
    [] node.type = "stringLit" -> visitStringLit(cs, node)
    [] node.type = "ident" -> visitIdent(cs, node)
    [] node.type = "unary" -> visitUnary(cs, node)
    [] node.type = "binary" -> visitBinary(cs, node)
    [] node.type = "invoke" -> visitInvoke(cs, node)
    [] node.type = "valDecl" -> visitValDecl(cs, node)
    [] node.type = "funcDecl" -> visitFuncDecl(cs, node)
    [] node.type = "print" -> visitPrint(cs, node)

\* Compiler.compile(): the compiler object afterwards
compile(nodes) ==
  LET c1 == compileBlock(NewCompiler, nodes)
  IN  IF c1.err # "" THEN c1 ELSE emit(c1, <<return>>)

(***************************************************************************)
(* valueToString (vm.ts)                                                   *)
(***************************************************************************)
DigitChars == <<"0", "1", "2", "3", "4", "5", "6", "7", "8", "9">>

RECURSIVE natToString(_)
\* the decimal numeral of a natural number, most significant digit first
natToString(n) ==
  IF n < 10 THEN <<DigitChars[n + 1]>>
  ELSE natToString(n \div 10) \o <<DigitChars[(n % 10) + 1]>>

\* `${n}` for an integer n
numberToString(n) == IF n < 0 THEN <<"-">> \o natToString(-n) ELSE natToString(n)

\* the characters of an identifier; identifiers here are single letters
nameChars(name) == <<name>>

valueToString(val) ==
  CASE val.type = "number" -> numberToString(val.num)
    [] val.type = "string" -> val.str
    [] val.type = "nil" -> <<"n", "i", "l">>
    [] val.type = "function" ->
         <<"<", "#", "f", "n", " ">> \o nameChars(val.name) \o <<">">>

(***************************************************************************)
(* VM.  vm is the VM object: callStack, stack, halted; output is what      *)
(* console.log has written, err the thrown string's kind.                  *)
(***************************************************************************)
NewVM(module) ==
  [module |-> module,
   callStack |-> <<[ip |-> 0, code |-> module.code, stackOffset |-> 0]>>,
   stack |-> <<>>, halted |-> FALSE, output |-> <<>>, err |-> ""]

currentFrame(vm) == vm.callStack[Len(vm.callStack)]

\* the byte readByte returns; -1 stands for undefined (ip past the end)
peekByte(vm) ==
  LET f == currentFrame(vm)
  IN  IF f.ip < Len(f.code) THEN f.code[f.ip + 1] ELSE -1

\* readByte's effect: currentFrame.ip++
advance(vm) == [vm EXCEPT !.callStack[Len(vm.callStack)].ip = @ + 1]

push(vm, val) == [vm EXCEPT !.stack = Append(@, val)]

vmThrow(vm, kind) == [vm EXCEPT !.err = kind]

\* this.stack.pop(): the stack without its last element (unchanged when empty)
dropTop(stack) == IF stack = <<>> THEN stack ELSE SubSeq(stack, 1, Len(stack) - 1)

opConst(vm, op) == push(vm, NumberValue(const0 + op))

\* opConstant pushing the first entry of the pool whatever the index
opConstant_firstEntry(vm) ==
  LET constIdx == peekByte(vm)
      v1 == advance(vm)
      constants == vm.module.constants
  IN  IF constIdx < 0 \/ constIdx >= Len(constants)
        THEN vmThrow(v1, "ConstantIndexOutOfRange")
        ELSE push(v1, constants[1].val)

opConstant(vm) ==
  LET constIdx == peekByte(vm)
      v1 == advance(vm)
      constants == vm.module.constants
  IN  IF constIdx < 0 \/ constIdx >= Len(constants)
        THEN vmThrow(v1, "ConstantIndexOutOfRange")
        ELSE push(v1, constants[constIdx + 1].val)

opNeg(vm) ==
  IF vm.stack = <<>> THEN vmThrow(vm, "EmptyStack")
  ELSE LET val == vm.stack[Len(vm.stack)]
           v1 == [vm EXCEPT !.stack = dropTop(@)]
       IN  IF val.type # "number" THEN vmThrow(v1, "TypeMismatch")
           ELSE push(v1, NumberValue(-val.num))

\* opAdd with the two texts joined in pop order (right, then left)
opAdd_rightFirst(vm) ==
  IF Len(vm.stack) < 2 THEN vmThrow(vm, "EmptyStack")
  ELSE
    LET right == vm.stack[Len(vm.stack)]
        left == vm.stack[Len(vm.stack) - 1]
        v2 == [vm EXCEPT !.stack = SubSeq(@, 1, Len(@) - 2)]
    IN  IF left.type = "string" \/ right.type = "string"
          THEN push(v2, StringValue(valueToString(right) \o valueToString(left)))
        ELSE IF left.type # "number" \/ right.type # "number"
          THEN vmThrow(v2, "TypeMismatch")
        ELSE push(v2, NumberValue(left.num + right.num))

opAdd(vm) ==
  IF vm.stack = <<>> THEN vmThrow(vm, "EmptyStack")
  ELSE
    LET right == vm.stack[Len(vm.stack)]
        v1 == [vm EXCEPT !.stack = dropTop(@)]
    IN  IF v1.stack = <<>> THEN vmThrow(v1, "EmptyStack")
        ELSE
          LET left == v1.stack[Len(v1.stack)]
              v2 == [v1 EXCEPT !.stack = dropTop(@)]
          IN  IF left.type = "string" \/ right.type = "string"
                THEN push(v2, StringValue(valueToString(left) \o valueToString(right)))
              ELSE IF left.type # "number" \/ right.type # "number"
                THEN vmThrow(v2, "TypeMismatch")
              ELSE push(v2, NumberValue(left.num + right.num))

opSub(vm) ==
  IF vm.stack = <<>> THEN vmThrow(vm, "EmptyStack")
  ELSE
    LET right == vm.stack[Len(vm.stack)]
        v1 == [vm EXCEPT !.stack = dropTop(@)]
    IN  IF v1.stack = <<>> THEN vmThrow(v1, "EmptyStack")
        ELSE
          LET left == v1.stack[Len(v1.stack)]
              v2 == [v1 EXCEPT !.stack = dropTop(@)]
          IN  IF left.type # "number" \/ right.type # "number"
                THEN vmThrow(v2, "TypeMismatch")
              ELSE push(v2, NumberValue(left.num - right.num))

\* opLoad indexing the stack from its bottom, not from the frame's offset
opLoad_absolute(vm) ==
  LET slotIdx == peekByte(vm)
      v1 == advance(vm)
      idx == slotIdx
  IN  IF slotIdx < 0 \/ idx < 0 \/ idx >= Len(vm.stack)
        THEN vmThrow(v1, "StackIndexOutOfRange")
        ELSE push(v1, vm.stack[idx + 1])

opLoad(vm) ==
  LET slotIdx == peekByte(vm)
      v1 == advance(vm)
      idx == slotIdx + currentFrame(vm).stackOffset
  IN  IF slotIdx < 0 \/ idx < 0 \/ idx >= Len(vm.stack)
        THEN vmThrow(v1, "StackIndexOutOfRange")
        ELSE push(v1, vm.stack[idx + 1])

\* this.stack[slotIdx] = this.pop(): the target is fixed, then the top is
\* popped, then written; writing at the popped top's own index puts it back
opStore(vm) ==
  LET slotIdxVirt == peekByte(vm)
      v1 == advance(vm)
      slotIdx == slotIdxVirt + currentFrame(vm).stackOffset
  IN  IF slotIdxVirt < 0 \/ slotIdx >= Len(vm.stack)
        THEN vmThrow(v1, "StackIndexOutOfRange")
      ELSE IF vm.stack = <<>> THEN vmThrow(v1, "EmptyStack")
      ELSE IF slotIdx < 0
        THEN [v1 EXCEPT !.stack = dropTop(@)]
      ELSE LET val == vm.stack[Len(vm.stack)]
               rest == dropTop(vm.stack)
           IN  [v1 EXCEPT !.stack =
                  IF slotIdx = Len(rest) THEN Append(rest, val)
                  ELSE [rest EXCEPT ![slotIdx + 1] = val]]

opPrint(vm) ==
  IF vm.stack = <<>> THEN vmThrow(vm, "EmptyStack")
  ELSE [vm EXCEPT !.stack = dropTop(@),
                  !.output = Append(@, valueToString(vm.stack[Len(vm.stack)]))]

\* opInvoke with the target tested before it is popped
opInvoke_testBeforePop(vm) ==
  LET arity == peekByte(vm)
      v1 == advance(vm)
  IN  IF vm.stack = <<>> THEN vmThrow(v1, "EmptyStack")
      ELSE
        LET target == vm.stack[Len(vm.stack)]
            v2 == [v1 EXCEPT !.stack = dropTop(@)]
        IN  IF target.type # "function" THEN vmThrow(v1, "NotInvocable")
            ELSE [v2 EXCEPT !.callStack =
                    Append(@, [ip |-> 0, code |-> target.code,
                               stackOffset |-> Len(v2.stack) - 1 - arity])]

opInvoke(vm) ==
  LET arity == peekByte(vm)
      v1 == advance(vm)
  IN  IF vm.stack = <<>> THEN vmThrow(v1, "EmptyStack")
      ELSE
        LET target == vm.stack[Len(vm.stack)]
            v2 == [v1 EXCEPT !.stack = dropTop(@)]
        IN  IF target.type # "function" THEN vmThrow(v2, "NotInvocable")
            ELSE [v2 EXCEPT !.callStack =
                    Append(@, [ip |-> 0, code |-> target.code,
                               stackOffset |-> Len(v2.stack) - 1 - arity])]

opPop(vm) ==
  IF vm.stack = <<>> THEN vmThrow(vm, "EmptyStack")
  ELSE [vm EXCEPT !.stack = dropTop(@)]

\* opReturn discarding the topmost frame whatever the number of frames
opReturn_alwaysDiscard(vm) ==
  [vm EXCEPT !.callStack = SubSeq(@, 1, Len(@) - 1),
             !.halted = Len(vm.callStack) <= 1]

opReturn(vm) ==
  IF Len(vm.callStack) > 1
    THEN [vm EXCEPT !.callStack = SubSeq(@, 1, Len(@) - 1)]
    ELSE [vm EXCEPT !.halted = TRUE]

\* VM.handleInstr: one fetch (readByte) and the switch on the opcode
handleInstr(vm) ==
  LET op == peekByte(vm)
      v1 == advance(vm)
  IN  CASE op \in {const0, const1, const2} -> opConst(v1, op)
        [] op = constant -> opConstant(v1)
        [] op = neg -> opNeg(v1)
        [] op = add -> opAdd(v1)
        [] op = sub -> opSub(v1)
        [] op = load -> opLoad(v1)
        [] op = store -> opStore(v1)
        [] op = print -> opPrint(v1)
        [] op = invoke -> opInvoke(v1)
        [] op = pop -> opPop(v1)
        [] op = nil -> push(v1, nilValue)
        [] op = return -> opReturn(v1)
        [] OTHER -> v1

(***************************************************************************)
(* The programs compiled and run: what Parser.parse() returns for source   *)
(* texts of these shapes.  Identifiers are single letters; the parameters  *)
(* of a function are the first letters of ParamNames.                      *)
(***************************************************************************)
MaxInt == 3
MaxStmts == 3
MaxParams == 2
MaxBody == 2
\* run() is followed while at most MaxFrames call frames are active
MaxFrames == 4

ParamNames == <<"x", "y", "z", "w">>
Strings == {<<"a">>}

\* sequences over S of length n, and of length at most n
SeqsOfLen(S, n) == [1..n -> S]
SeqsUpTo(S, n) == UNION {SeqsOfLen(S, k) : k \in 0..n}

\* parseFuncDecl's params for a function of n parameters
Params(n) == [i \in 1..n |-> Ident(ParamNames[i])]

StrA == StringLit(<<"a">>)
X == Ident("x")
Y == Ident("y")
F == Ident("f")
G == Ident("g")

\* parseIntLit / parseStringLit
Literals == {IntLit(v) : v \in 0..MaxInt} \cup {StringLit(s) : s \in Strings}

\* sequences of literal statements: `3 3`, `'a' 1 'a'`, `'' 0`, and no statement
LiteralPrograms == SeqsUpTo(Literals \cup {StringLit(<<>>)}, MaxStmts)

\* one statement, an operator expression over literals or an invocation of
\* a literal, bare or printed: `1 + 'a'`, `print -1 - 2`, `3 * 2`, `'a'(1)`
Operands ==
  Literals \cup {Unary("minus", l) : l \in Literals} \cup {IntLit(12)}
OperatorExprs ==
  {Binary(op, l, r) : op \in {"plus", "minus", "star"}, l \in Operands, r \in Operands}
    \cup Operands
    \cup {Invoke(l, as) : l \in Literals, as \in SeqsUpTo({IntLit(1)}, MaxParams)}
ExpressionPrograms ==
  {<<e>> : e \in OperatorExprs} \cup {<<PrintStmt(e)>> : e \in OperatorExprs}

\* value declarations and their uses at the top level:
\* `const x = 2  print x + 3`, `const x = 2  const x = 'a'`
BindingStmts ==
  {ValDecl("x", IntLit(2)), ValDecl("x", StrA), ValDecl("y", IntLit(1)),
   ValDecl("y", X), X, Y, Binary("plus", X, Y),
   PrintStmt(Binary("plus", X, IntLit(3))), PrintStmt(Y)}
BindingPrograms == SeqsUpTo(BindingStmts, MaxStmts)

\* a function of n parameters with a body of up to MaxBody statements, called
\* with n arguments: `def f(x, y) { const z = 'a'  x + y }  print f(2, 3)`
BodyStmts ==
  {IntLit(3), X, Y, F, Binary("plus", X, Y), Binary("minus", Y, X),
   ValDecl("z", StrA), ValDecl("x", IntLit(1)), Ident("z"), PrintStmt(X),
   FuncDecl("g", <<>>, <<IntLit(1)>>), Invoke(G, <<>>)}
Bodies == SeqsUpTo(BodyStmts, MaxBody)
Args(n) == [i \in 1..n |-> IntLit(i + 1)]
BodyPrograms ==
  UNION {{<<FuncDecl("f", Params(n), b), u>> :
            b \in Bodies,
            u \in {Invoke(F, Args(n)), PrintStmt(Invoke(F, Args(n)))}} :
         n \in 0..MaxParams}

\* a function with a short body, called with any number of arguments and
\* its result used: `def f(x, y) { 0 }  f()`, `def f() { }  f() + 'a'`,
\* `const x = 1  def f(x) { x }  f(2)  x`, `def f(x) { }  f(2)  f`
ShortBodies ==
  {<<>>, <<IntLit(0)>>, <<X>>, <<Y>>, <<Binary("plus", X, Y)>>, <<PrintStmt(X)>>,
   <<ValDecl("z", X)>>}
ArgAtoms == {IntLit(2), StrA, F}
Calls == {Invoke(F, as) : as \in SeqsUpTo(ArgAtoms, MaxParams)}
CallUses ==
  Calls \cup {PrintStmt(c) : c \in Calls}
    \cup {Binary("plus", c, StrA) : c \in Calls}
    \cup {Binary("plus", IntLit(1), c) : c \in Calls}
    \cup {Unary("minus", c) : c \in Calls}
    \cup {Invoke(c, <<>>) : c \in Calls}
    \cup {Binary("plus", c, c) : c \in Calls}
    \cup {Binary("plus", F, StrA), Binary("plus", IntLit(1), F),
          Binary("plus", F, F), PrintStmt(F)}
CallPrograms ==
  {<<FuncDecl("f", Params(n), b), u>> :
     n \in 0..MaxParams, b \in ShortBodies, u \in CallUses}
    \cup {<<ValDecl("x", IntLit(1)), FuncDecl("f", Params(n), b), c, X>> :
            n \in 0..MaxParams, b \in ShortBodies, c \in Calls}
    \cup {<<FuncDecl("f", Params(n), b), c, F>> :
            n \in 0..MaxParams, b \in ShortBodies, c \in Calls}

\* a function passed to a function that calls its parameter:
\* `def f(x) { 0 }  def g(x) { x() }  g(f)`
HigherOrderPrograms ==
  {<<FuncDecl("f", Params(n), b), FuncDecl("g", Params(1), <<Invoke(X, as)>>), u>> :
     n \in 0..MaxParams, b \in {<<IntLit(0)>>, <<X>>},
     as \in SeqsUpTo({IntLit(1), X}, MaxParams),
     u \in {Invoke(G, <<F>>), PrintStmt(Invoke(G, <<F>>)), Invoke(G, <<G>>),
            Invoke(G, <<IntLit(2)>>)}}

\* a function declaring a function in its body and calling it, its own
\* parameter or a call's result, with any number of literal arguments:
\* `def f(x) { def g(x, y) { def h() { 0 }  x() }  g(g()) }  f(2)`
H == Ident("h")
InnerBodies ==
  {<<>>, <<IntLit(0)>>, <<Invoke(X, <<>>)>>,
   <<FuncDecl("h", <<>>, <<IntLit(0)>>), Invoke(X, <<>>)>>,
   <<FuncDecl("h", <<>>, <<IntLit(0)>>), H>>}
InnerUses ==
  {G, Invoke(G, <<>>), Invoke(G, <<IntLit(1)>>), Invoke(G, <<Invoke(G, <<>>)>>),
   Invoke(X, <<>>), Invoke(Invoke(G, <<>>), <<>>)}
OuterUses ==
  {Invoke(F, <<>>), Invoke(F, <<IntLit(2)>>), Invoke(Invoke(F, <<>>), <<>>),
   Invoke(Invoke(F, <<>>), <<IntLit(2)>>)}
NestedPrograms ==
  {<<FuncDecl("f", Params(n), <<FuncDecl("g", Params(m), b), u>>), v>> :
     n \in 0..(MaxParams - 1), m \in 0..MaxParams,
     b \in InnerBodies, u \in InnerUses, v \in OuterUses}

\* declarations whose names meet: the same name twice at one depth, a name
\* of an enclosing depth used or declared again in a function body
ScopeStmts ==
  {ValDecl("x", IntLit(1)), ValDecl("f", IntLit(2)), X,
   FuncDecl("f", <<>>, <<>>), FuncDecl("f", Params(1), <<X>>),
   FuncDecl("f", <<>>, <<F>>), FuncDecl("g", <<>>, <<X>>),
   FuncDecl("g", <<>>, <<Invoke(F, <<>>)>>),
   FuncDecl("g", Params(1), <<ValDecl("x", IntLit(3))>>),
   FuncDecl("g", <<>>, <<ValDecl("x", IntLit(3)), X>>),
   FuncDecl("g", <<>>, <<ValDecl("x", IntLit(2)), ValDecl("x", IntLit(3))>>),
   FuncDecl("g", <<>>, <<FuncDecl("f", <<>>, <<IntLit(3)>>), Invoke(F, <<>>)>>),
   FuncDecl("g", <<>>, <<FuncDecl("g", <<>>, <<G>>)>>),
   Invoke(F, <<IntLit(2)>>), Invoke(G, <<>>)}
ScopePrograms == SeqsUpTo(ScopeStmts, MaxStmts)

Programs ==
  LiteralPrograms \cup ExpressionPrograms \cup BindingPrograms
    \cup BodyPrograms \cup CallPrograms \cup HigherOrderPrograms
    \cup ScopePrograms \cup NestedPrograms

(***************************************************************************)
(* The state: the `run` command of index.ts.  pc is its position:          *)
(*   "parsed"  the Compiler is constructed (nodes = parser.parse())        *)
(*   "compiled" / "compileError"  compile() returned / threw               *)
(*   "running"  the VM is constructed and run() loops                      *)
(*   "vmError"  handleInstr threw;  "done"  run() returned result          *)
(***************************************************************************)
VARIABLES program, compiler, vm, result, pc
vars == <<program, compiler, vm, result, pc>>

NoVM == [module |-> [constants |-> <<>>, code |-> <<>>], callStack |-> <<>>,
         stack |-> <<>>, halted |-> FALSE, output |-> <<>>, err |-> ""]

Init ==
  /\ program \in Programs
  /\ compiler = NewCompiler
  /\ vm = NoVM
  /\ result = nilValue
  /\ pc = "parsed"

\* compiler.compile()
Compile ==
  /\ pc = "parsed"
  /\ compiler' = compile(program)
  /\ pc' = IF compiler'.err = "" THEN "compiled" ELSE "compileError"
  /\ UNCHANGED <<program, vm, result>>

\* new VM(module), module = { code, constants } of the compiler
Construct ==
  /\ pc = "compiled"
  /\ vm' = NewVM([constants |-> compiler.constants, code |-> compiler.code])
  /\ pc' = "running"
  /\ UNCHANGED <<program, compiler, result>>

\* one iteration of run()'s loop
HandleInstr ==
  /\ pc = "running"
  /\ ~vm.halted
  /\ Len(vm.callStack) <= MaxFrames
  /\ vm' = handleInstr(vm)
  /\ pc' = IF vm'.err = "" THEN "running" ELSE "vmError"
  /\ UNCHANGED <<program, compiler, result>>

\* the end of run(): result = this.stack.pop(); return result || nilValue
RunReturn ==
  /\ pc = "running"
  /\ vm.halted
  /\ result' = IF vm.stack = <<>> THEN nilValue ELSE vm.stack[Len(vm.stack)]
  /\ vm' = [vm EXCEPT !.stack = dropTop(@)]
  /\ pc' = "done"
  /\ UNCHANGED <<program, compiler>>

Next == Compile \/ Construct \/ HandleInstr \/ RunReturn

Spec == Init /\ [][Next]_vars

\* run() does not stop between two iterations of its loop, nor before it
\* returns the result
FairSpec == Spec /\ WF_vars(HandleInstr) /\ WF_vars(RunReturn)

(***************************************************************************)
(* Properties                                                              *)
(***************************************************************************)
Compiled == pc \notin {"parsed", "compileError"}
Running == pc = "running" /\ ~vm.halted

\* Running, and the instruction about to be executed is op
AboutTo(op) == Running /\ peekByte(vm) = op

Top(stack) == stack[Len(stack)]
Below(stack, n) == SubSeq(stack, 1, Len(stack) - n)

\* a pool entry other than the numbers 0, 1, 2 of the fast path
PoolLiteral(c) == c.val.type = "number" => c.val.num \notin {0, 1, 2}

\* C1: after compile() no two entries of the constant pool are structurally
\* equal: a literal (other than the fast-path integers) compiled twice has
\* one pool entry.
C1_PoolDeduplicated ==
  Compiled =>
    \A i, j \in 1..Len(compiler.constants) :
      (i # j /\ PoolLiteral(compiler.constants[i]))
        => compiler.constants[i].val # compiler.constants[j].val

\* C2: the integer literals 0, 1 and 2 add no entry to the constant pool (the
\* numbers of the pool come from integer literals alone), and a program that
\* is one such literal v compiles to the single opcode const0 + v.
C2_FastPathLiterals ==
  Compiled =>
    /\ \A i \in 1..Len(compiler.constants) :
         compiler.constants[i].val.type = "number"
           => compiler.constants[i].val.num \notin {0, 1, 2}
    /\ \A v \in {0, 1, 2} :
         program = <<IntLit(v)>> => compiler.code = <<const0 + v, return>>

\* the function declarations of a block in the order their bodies finish
\* compiling, which is the order of the function constants in the pool
RECURSIVE FuncDeclsOf(_)
FuncDeclsOf(nodes) ==
  IF nodes = <<>> THEN <<>>
  ELSE LET n == nodes[1]
       IN  (IF n.type = "funcDecl" THEN FuncDeclsOf(n.body) \o <<n>> ELSE <<>>)
             \o FuncDeclsOf(Tail(nodes))

FunctionConstants ==
  SelectSeq(compiler.constants, LAMBDA c : c.val.type = "function")

\* the parameter counts of the declarations compiled to this code
ParamCountsOf(code) ==
  {Len(FuncDeclsOf(program)[k].params) :
     k \in {k \in 1..Len(FunctionConstants) : FunctionConstants[k].val.code = code}}

\* the top frame is a callee about to return, and its invocation passed as
\* many arguments as the callee has parameters
MatchedCallReturns ==
  /\ AboutTo(return)
  /\ Len(vm.callStack) >= 2
  /\ LET caller == vm.callStack[Len(vm.callStack) - 1]
     IN  /\ caller.ip >= 2
         /\ caller.code[caller.ip - 1] = invoke
         /\ ParamCountsOf(currentFrame(vm).code) = {caller.code[caller.ip]}

\* C3: when an invocation whose argument count equals the callee's parameter
\* count returns, the stack is the stack below the placeholder plus exactly
\* one value, at the placeholder's position (the callee's stackOffset).
C3_CallLeavesOneValue ==
  MatchedCallReturns => Len(vm.stack) = currentFrame(vm).stackOffset + 1

\* C4: no instruction executed in a call frame pops or overwrites a stack
\* index below that frame's stackOffset.
C4_FrameIsolation ==
  [][Running =>
       LET off == currentFrame(vm).stackOffset
       IN  /\ Len(vm'.stack) >= off
           /\ SubSeq(vm'.stack, 1, off) = SubSeq(vm.stack, 1, off)]_vars

\* the instructions of a code array: [op, arg], arg = -1 for no operand
RECURSIVE Decode(_)
Decode(code) ==
  IF code = <<>> THEN <<>>
  ELSE IF opcodeMeta[code[1]] = 1 /\ Len(code) >= 2
    THEN <<[op |-> code[1], arg |-> code[2]]>> \o Decode(SubSeq(code, 3, Len(code)))
  ELSE <<[op |-> code[1], arg |-> -1]>> \o Decode(Tail(code))

\* the last binding of name in a scope (a sequence of [name, ...] records),
\* 0 if there is none
LastIndexOf(scope, name) ==
  LET hits == {i \in 1..Len(scope) : scope[i].name = name}
  IN  IF hits = {} THEN 0 ELSE CHOOSE i \in hits : \A j \in hits : j <= i

\* Every call of a block names a function declared in the block's own scope
\* and passes as many arguments as that function has parameters.  scope is
\* the sequence of [name, arity] bound so far, arity = -1 for a binding that
\* is not a declared function.
RECURSIVE ExprCallsMatched(_, _)
RECURSIVE BlockCallsMatched(_, _)
ExprCallsMatched(e, scope) ==
  CASE e.type \in {"intLit", "stringLit", "ident"} -> TRUE
    [] e.type = "unary" -> ExprCallsMatched(e.expr, scope)
    [] e.type = "binary" ->
         ExprCallsMatched(e.left, scope) /\ ExprCallsMatched(e.right, scope)
    [] e.type = "invoke" ->
         /\ \A i \in 1..Len(e.args) : ExprCallsMatched(e.args[i], scope)
         /\ e.target.type = "ident"
         /\ LastIndexOf(scope, e.target.name) # 0
         /\ scope[LastIndexOf(scope, e.target.name)].arity = Len(e.args)
BlockCallsMatched(nodes, scope) ==
  IF nodes = <<>> THEN TRUE
  ELSE
    LET n == nodes[1]
    IN  CASE n.type = "valDecl" ->
               /\ ExprCallsMatched(n.init, scope)
               /\ BlockCallsMatched(Tail(nodes),
                     Append(scope, [name |-> n.ident.name, arity |-> -1]))
          [] n.type = "funcDecl" ->
               /\ BlockCallsMatched(n.body,
                     <<[name |-> "#ret", arity |-> -1]>>
                       \o [i \in 1..Len(n.params) |->
                             [name |-> n.params[i].name, arity |-> -1]])
               /\ BlockCallsMatched(Tail(nodes),
                     Append(scope, [name |-> n.fname.name, arity |-> Len(n.params)]))
          [] n.type = "print" ->
               ExprCallsMatched(n.expr, scope) /\ BlockCallsMatched(Tail(nodes), scope)
          [] OTHER ->
               ExprCallsMatched(n, scope) /\ BlockCallsMatched(Tail(nodes), scope)

CallsMatched == BlockCallsMatched(program, <<>>)

\* the top-level declarations of the program, in slot order
TopDecls == SelectSeq(program, LAMBDA n : n.type \in {"valDecl", "funcDecl"})

\* v is the value the declaration d binds, where the program text tells it:
\* the function for a function declaration, the literal for a literal
\* initializer
IsBoundValue(v, d) ==
  CASE d.type = "funcDecl" -> v.type = "function" /\ v.name = d.fname.name
    [] d.type = "valDecl" /\ d.init.type = "intLit" -> v = NumberValue(d.init.value)
    [] d.type = "valDecl" /\ d.init.type = "stringLit" -> v = StringValue(d.init.strValue)
    [] OTHER -> TRUE

\* C5: in a program all of whose calls pass as many arguments as the callee
\* has parameters, a load(slot) of the top-level code finds the slot on the
\* stack, holding the value of the declaration the slot belongs to; and the
\* top-level code, which holds the code of the declarations, has no store.
C5_LoadPushesBinding ==
  /\ (AboutTo(load) /\ Len(vm.callStack) = 1 /\ CallsMatched) =>
       LET slot == currentFrame(vm).code[currentFrame(vm).ip + 2]
       IN  /\ slot < Len(vm.stack)
           /\ slot < Len(TopDecls)
           /\ IsBoundValue(vm.stack[slot + 1], TopDecls[slot + 1])
  /\ Compiled =>
       \A i \in 1..Len(Decode(compiler.code)) : Decode(compiler.code)[i].op # store

\* the text of a value: a number's decimal numeral,
\* a string itself, nil, and the placeholder naming a function
Digit == [d \in 0..9 |-> CASE d = 0 -> "0" [] d = 1 -> "1" [] d = 2 -> "2"
                           [] d = 3 -> "3" [] d = 4 -> "4" [] d = 5 -> "5"
                           [] d = 6 -> "6" [] d = 7 -> "7" [] d = 8 -> "8"
                           [] d = 9 -> "9"]
NumeralOfNat(n) ==
  IF n <= 9 THEN <<Digit[n]>>
  ELSE IF n <= 99 THEN <<Digit[n \div 10], Digit[n % 10]>>
  ELSE <<Digit[n \div 100], Digit[(n \div 10) % 10], Digit[n % 10]>>
TextOf(v) ==
  CASE v.type = "number" ->
         IF v.num < 0 THEN <<"-">> \o NumeralOfNat(-v.num) ELSE NumeralOfNat(v.num)
    [] v.type = "string" -> v.str
    [] v.type = "nil" -> <<"n", "i", "l">>
    [] v.type = "function" -> <<"<", "#", "f", "n", " ", v.name, ">">>

(***************************************************************************)
(* The value of a program by the language's rules, against which the run   *)
(* of the compiled code is compared.  An outcome is [st, val]: st = "ok"   *)
(* with the value, "error" for a run-time failure the language defines     *)
(* (type mismatch, not invocable), or "undefined" where the rules give no  *)
(* value: a call whose argument count differs from the parameter count, or *)
(* calls nested deeper than fuel.  A scope is the sequence of [name, val]  *)
(* bound so far in the block; a function value carries its declaration.    *)
(***************************************************************************)
SrcOk(v) == [st |-> "ok", val |-> v]
SrcError == [st |-> "error", val |-> nilValue]
SrcUndefined == [st |-> "undefined", val |-> nilValue]
SrcFunction(d) == [type |-> "function", name |-> d.fname.name, decl |-> d]

SrcAdd(l, r) ==
  IF l.type = "string" \/ r.type = "string"
    THEN SrcOk(StringValue(TextOf(l) \o TextOf(r)))
  ELSE IF l.type = "number" /\ r.type = "number"
    THEN SrcOk(NumberValue(l.num + r.num))
  ELSE SrcError

SrcSub(l, r) ==
  IF l.type = "number" /\ r.type = "number"
    THEN SrcOk(NumberValue(l.num - r.num))
  ELSE SrcError

RECURSIVE SrcExpr(_, _, _)
RECURSIVE SrcArgs(_, _, _, _)
RECURSIVE SrcBlock(_, _, _, _)

\* the values of the arguments from the i-th on, in order: [st, vals]
SrcArgs(args, i, scope, fuel) ==
  IF i > Len(args) THEN [st |-> "ok", vals |-> <<>>]
  ELSE
    LET a == SrcExpr(args[i], scope, fuel)
        rest == SrcArgs(args, i + 1, scope, fuel)
    IN  IF a.st # "ok" THEN [st |-> a.st, vals |-> <<>>]
        ELSE IF rest.st # "ok" THEN rest
        ELSE [st |-> "ok", vals |-> <<a.val>> \o rest.vals]

SrcExpr(e, scope, fuel) ==
  CASE e.type = "intLit" -> SrcOk(NumberValue(e.value))
    [] e.type = "stringLit" -> SrcOk(StringValue(e.strValue))
    [] e.type = "ident" ->
         IF LastIndexOf(scope, e.name) = 0 THEN SrcUndefined
         ELSE SrcOk(scope[LastIndexOf(scope, e.name)].val)
    [] e.type = "unary" ->
         LET r == SrcExpr(e.expr, scope, fuel)
         IN  IF r.st # "ok" THEN r
             ELSE IF r.val.type = "number" THEN SrcOk(NumberValue(0 - r.val.num))
             ELSE SrcError
    [] e.type = "binary" ->
         LET l == SrcExpr(e.left, scope, fuel)
             r == SrcExpr(e.right, scope, fuel)
         IN  IF l.st # "ok" THEN l
             ELSE IF r.st # "ok" THEN r
             ELSE IF e.op = "plus" THEN SrcAdd(l.val, r.val)
             ELSE IF e.op = "minus" THEN SrcSub(l.val, r.val)
             ELSE SrcUndefined
    [] e.type = "invoke" ->
         LET as == SrcArgs(e.args, 1, scope, fuel)
             t == SrcExpr(e.target, scope, fuel)
         IN  IF as.st # "ok" THEN [st |-> as.st, val |-> nilValue]
             ELSE IF t.st # "ok" THEN t
             ELSE IF t.val.type # "function" THEN SrcError
             ELSE IF Len(t.val.decl.params) # Len(e.args) \/ fuel = 0 THEN SrcUndefined
             ELSE SrcBlock(t.val.decl.body, 1,
                           <<[name |-> "#ret", val |-> nilValue]>>
                             \o [k \in 1..Len(e.args) |->
                                   [name |-> t.val.decl.params[k].name,
                                    val |-> as.vals[k]]],
                           fuel - 1)

\* the value of a block from its i-th statement on: the value of the last
\* statement if that is an expression, nil otherwise (and for no statement)
SrcBlock(nodes, i, scope, fuel) ==
  IF i > Len(nodes) THEN SrcOk(nilValue)
  ELSE
    LET n == nodes[i]
        r == SrcExpr(IF n.type = "valDecl" THEN n.init
                     ELSE IF n.type = "print" THEN n.expr ELSE n,
                     scope, fuel)
    IN  IF n.type = "funcDecl"
          THEN SrcBlock(nodes, i + 1,
                        Append(scope, [name |-> n.fname.name, val |-> SrcFunction(n)]),
                        fuel)
        ELSE IF r.st # "ok" THEN r
        ELSE IF n.type = "valDecl"
          THEN SrcBlock(nodes, i + 1,
                        Append(scope, [name |-> n.ident.name, val |-> r.val]), fuel)
        ELSE IF i = Len(nodes) /\ isExpr(n) THEN r
        ELSE SrcBlock(nodes, i + 1, scope, fuel)

\* the value of the program
SrcProgram == SrcBlock(program, 1, <<>>, MaxFrames)

\* a value of the run is the value s of the program text
SameValue(v, s) ==
  /\ v.type = s.type
  /\ v.type = "number" => v.num = s.num
  /\ v.type = "string" => v.str = s.str
  /\ v.type = "function" => v.name = s.name

\* C6: a program whose rules give it a value runs to the end without a
\* failure and yields that value: the value of the last statement if it is
\* an expression, nil if it is a declaration or a print.
C6_BlockValueLaw ==
  (Compiled /\ SrcProgram.st = "ok") =>
    /\ pc # "vmError"
    /\ pc = "done" => SameValue(result, SrcProgram.val)

(***************************************************************************)
(* Lexical scoping without closures, on the program text.  A scope is the  *)
(* set of names bound so far in one block; a function body starts a new    *)
(* scope of the return slot and the parameters.  ScopeBlock is the first   *)
(* failure in compilation order: [kind, name], kind = "" if there is none. *)
(***************************************************************************)
NoScopeError == [kind |-> "", name |-> ""]

RECURSIVE ScopeExpr(_, _)
RECURSIVE ScopeExprs(_, _, _)
RECURSIVE ScopeBlock(_, _, _)

ScopeExprs(es, i, names) ==
  IF i > Len(es) THEN NoScopeError
  ELSE LET r == ScopeExpr(es[i], names)
       IN  IF r.kind # "" THEN r ELSE ScopeExprs(es, i + 1, names)

ScopeExpr(e, names) ==
  CASE e.type \in {"intLit", "stringLit"} -> NoScopeError
    [] e.type = "ident" ->
         IF e.name \in names THEN NoScopeError
         ELSE [kind |-> "Unknown identifier", name |-> e.name]
    [] e.type = "unary" ->
         LET r == ScopeExpr(e.expr, names)
         IN  IF r.kind # "" THEN r
             ELSE IF e.op # "minus" THEN [kind |-> "Unknown operator", name |-> e.op]
             ELSE NoScopeError
    [] e.type = "binary" ->
         LET r == ScopeExprs(<<e.left, e.right>>, 1, names)
         IN  IF r.kind # "" THEN r
             ELSE IF e.op \notin {"plus", "minus"}
               THEN [kind |-> "Unknown operator", name |-> e.op]
             ELSE NoScopeError
    [] e.type = "invoke" -> ScopeExprs(e.args \o <<e.target>>, 1, names)

ScopeBlock(nodes, i, names) ==
  IF i > Len(nodes) THEN NoScopeError
  ELSE
    LET n == nodes[i]
    IN  CASE n.type = "valDecl" ->
               IF n.ident.name \in names
                 THEN [kind |-> "Duplicate identifier", name |-> n.ident.name]
               ELSE LET r == ScopeExpr(n.init, names)
                    IN  IF r.kind # "" THEN r
                        ELSE ScopeBlock(nodes, i + 1, names \cup {n.ident.name})
          [] n.type = "funcDecl" ->
               IF n.fname.name \in names
                 THEN [kind |-> "Duplicate identifier", name |-> n.fname.name]
               ELSE LET r == ScopeBlock(n.body, 1,
                                        {"#ret"} \cup {n.params[k].name : k \in 1..Len(n.params)})
                    IN  IF r.kind # "" THEN r
                        ELSE ScopeBlock(nodes, i + 1, names \cup {n.fname.name})
          [] n.type = "print" ->
               LET r == ScopeExpr(n.expr, names)
               IN  IF r.kind # "" THEN r ELSE ScopeBlock(nodes, i + 1, names)
          [] OTHER ->
               LET r == ScopeExpr(n, names)
               IN  IF r.kind # "" THEN r ELSE ScopeBlock(nodes, i + 1, names)

ScopeProgram == ScopeBlock(program, 1, {})

\* The slots of the identifiers of a block in the order they are compiled,
\* each resolved in the block's own scope (the sequence of [name] bound so
\* far, slot = position - 1); the identifiers of nested function bodies
\* belong to those functions' code.
RECURSIVE OwnSlotsExpr(_, _)
RECURSIVE OwnSlotsExprs(_, _, _)
RECURSIVE OwnSlotsBlock(_, _, _)

OwnSlotsExprs(es, i, scope) ==
  IF i > Len(es) THEN <<>>
  ELSE OwnSlotsExpr(es[i], scope) \o OwnSlotsExprs(es, i + 1, scope)

OwnSlotsExpr(e, scope) ==
  CASE e.type \in {"intLit", "stringLit"} -> <<>>
    [] e.type = "ident" -> <<LastIndexOf(scope, e.name) - 1>>
    [] e.type = "unary" -> OwnSlotsExpr(e.expr, scope)
    [] e.type = "binary" -> OwnSlotsExprs(<<e.left, e.right>>, 1, scope)
    [] e.type = "invoke" -> OwnSlotsExprs(e.args \o <<e.target>>, 1, scope)

OwnSlotsBlock(nodes, i, scope) ==
  IF i > Len(nodes) THEN <<>>
  ELSE
    LET n == nodes[i]
    IN  CASE n.type = "valDecl" ->
               OwnSlotsExpr(n.init, scope)
                 \o OwnSlotsBlock(nodes, i + 1, Append(scope, [name |-> n.ident.name]))
          [] n.type = "funcDecl" ->
               OwnSlotsBlock(nodes, i + 1, Append(scope, [name |-> n.fname.name]))
          [] n.type = "print" ->
               OwnSlotsExpr(n.expr, scope) \o OwnSlotsBlock(nodes, i + 1, scope)
          [] OTHER -> OwnSlotsExpr(n, scope) \o OwnSlotsBlock(nodes, i + 1, scope)

\* the scope a function body starts with
BodyScope(d) ==
  <<[name |-> "#ret"]>> \o [k \in 1..Len(d.params) |-> [name |-> d.params[k].name]]

\* the operands of the load instructions of a code array, in order
LoadSlots(code) ==
  LET loads == SelectSeq(Decode(code), LAMBDA ins : ins.op = load)
  IN  [k \in 1..Len(loads) |-> loads[k].arg]

\* the k-th function constant is the code of the k-th declaration whose
\* body finished compiling, and its loads are the declaration's own slots
ResolvedInOwnScope(k) ==
  /\ FunctionConstants[k].val.name = FuncDeclsOf(program)[k].fname.name
  /\ LoadSlots(FunctionConstants[k].val.code)
       = OwnSlotsBlock(FuncDeclsOf(program)[k].body, 1, BodyScope(FuncDeclsOf(program)[k]))

\* C7: compilation fails with the unknown-identifier error, naming the
\* identifier, exactly when the first failure of the program text under
\* scoping without closures is a reference to a name not bound in its own
\* block; and the loads of each compiled function body are the slots of
\* the body's own scope.
C7_NoClosure ==
  /\ pc # "parsed" =>
       /\ compiler.err = "Unknown identifier" <=> ScopeProgram.kind = "Unknown identifier"
       /\ compiler.err = "Unknown identifier" => compiler.errName = ScopeProgram.name
  /\ Compiled =>
       /\ Len(FunctionConstants) = Len(FuncDeclsOf(program))
       /\ \A k \in 1..Len(FunctionConstants) : ResolvedInOwnScope(k)

\* compilation failed inside a function body on a name that is bound at an
\* enclosing depth: `const x = 1  def g() { x }`
C7_Witness ==
  /\ pc = "compileError"
  /\ compiler.err = "Unknown identifier"
  /\ compiler.depth > 0
  /\ \E i \in 1..Len(compiler.locals) :
       /\ compiler.locals[i].name = compiler.errName
       /\ compiler.locals[i].depth < compiler.depth

\* the names declared at the top level of the program
TopNames ==
  {(IF TopDecls[i].type = "valDecl" THEN TopDecls[i].ident.name
    ELSE TopDecls[i].fname.name) : i \in 1..Len(TopDecls)}

\* the names a function declares in its own scope
OwnNames(d) ==
  {d.params[k].name : k \in 1..Len(d.params)}
    \cup {d.body[k].ident.name : k \in {j \in 1..Len(d.body) : d.body[j].type = "valDecl"}}
    \cup {d.body[k].fname.name : k \in {j \in 1..Len(d.body) : d.body[j].type = "funcDecl"}}

\* the top-level statement at which compilation fails, 0 if none
FailingStmt ==
  LET bad == {i \in 1..Len(program) : ScopeBlock(SubSeq(program, 1, i), 1, {}).kind # ""}
  IN  IF bad = {} THEN 0 ELSE CHOOSE i \in bad : \A j \in bad : i <= j

\* what the compiler holds once the statements before the i-th are compiled
\* and followed by another statement
CompiledBefore(i) ==
  LET c == compile(SubSeq(program, 1, i - 1) \o <<IntLit(0)>>)
  IN  [code |-> SubSeq(c.code, 1, Len(c.code) - 2), constants |-> c.constants,
       locals |-> c.locals]

\* C8: compilation fails with the duplicate-identifier error, naming the
\* identifier, exactly when the first failure of the program text is a
\* declaration of a name already bound in its own block; a top-level
\* declaration failing so has emitted no code, added no constant and bound
\* nothing; a function that declares a name of the top level compiles, and
\* its loads are the slots of its own scope.
C8_Shadowing ==
  /\ pc # "parsed" =>
       /\ compiler.err = "Duplicate identifier" <=> ScopeProgram.kind = "Duplicate identifier"
       /\ compiler.err = "Duplicate identifier" => compiler.errName = ScopeProgram.name
       /\ (compiler.err = "Duplicate identifier" /\ compiler.depth = 0) =>
            /\ compiler.code = CompiledBefore(FailingStmt).code
            /\ compiler.constants = CompiledBefore(FailingStmt).constants
            /\ compiler.locals = CompiledBefore(FailingStmt).locals
  /\ Compiled =>
       \A k \in 1..Len(FuncDeclsOf(program)) :
         (OwnNames(FuncDeclsOf(program)[k]) \cap TopNames # {})
           => /\ k <= Len(FunctionConstants)
              /\ ResolvedInOwnScope(k)

\* `const x = 1  def g() { const x = 3  x }  const x = 1`: g compiled with
\* x in its own slot 1, and the second top-level x failed
C8_Witness ==
  /\ pc = "compileError"
  /\ compiler.err = "Duplicate identifier"
  /\ compiler.errName = "x"
  /\ compiler.depth = 0
  /\ compiler.code # <<>>
  /\ \E k \in 1..Len(FunctionConstants) :
       /\ LoadSlots(FunctionConstants[k].val.code) = <<1>>
       /\ \E d \in {program[i] : i \in 1..Len(program)} :
            /\ d.type = "funcDecl"
            /\ d.fname.name = FunctionConstants[k].val.name
            /\ d.body = <<ValDecl("x", IntLit(3)), X>>

\* C9: add pops right then left; if either is a string it pushes the text of
\* left followed by the text of right; otherwise, if both are numbers, their
\* sum; in every other case it fails with a type mismatch and pushes nothing.
C9_Add ==
  [][(AboutTo(add) /\ Len(vm.stack) >= 2) =>
       LET right == vm.stack[Len(vm.stack)]
           left == vm.stack[Len(vm.stack) - 1]
           rest == Below(vm.stack, 2)
       IN  IF left.type = "string" \/ right.type = "string"
             THEN /\ vm'.err = ""
                  /\ vm'.stack = Append(rest, StringValue(TextOf(left) \o TextOf(right)))
           ELSE IF left.type = "number" /\ right.type = "number"
             THEN /\ vm'.err = ""
                  /\ vm'.stack = Append(rest, NumberValue(left.num + right.num))
           ELSE /\ vm'.err = "TypeMismatch"
                /\ vm'.stack = rest]_vars

\* `1 + 'a'` has run to the end and yielded '1a'
C9_Witness ==
  /\ pc = "done"
  /\ program = <<Binary("plus", IntLit(1), StrA)>>
  /\ result = StringValue(<<"1", "a">>)

\* C10: invoking a number, a string or nil fails with the not-invocable
\* error; no call frame is pushed and the stack is the stack before the
\* invoke instruction without its top element.
C10_NotInvocable ==
  [][(AboutTo(invoke) /\ vm.stack # <<>> /\ Top(vm.stack).type # "function") =>
       /\ pc' = "vmError"
       /\ vm'.err = "NotInvocable"
       /\ Len(vm'.callStack) = Len(vm.callStack)
       /\ vm'.stack = Below(vm.stack, 1)]_vars

\* nil was invoked: `def f() { }  f()()`
C10_Witness ==
  /\ pc = "vmError"
  /\ vm.err = "NotInvocable"
  /\ \E c \in Calls : program[Len(program)] = Invoke(c, <<>>)
  /\ Len(vm.stack) = 1

\* the VM exists: it is running, has thrown, or has returned its result
Constructed == pc \in {"running", "vmError", "done"}

\* C11: the call-frame stack of a constructed VM is never empty; return
\* discards the topmost frame, and no other, when more than one frame is
\* active, and halts the VM, keeping the frame, when it is the sole frame;
\* the VM is halted by no other instruction.
C11_FrameStackNeverEmpty ==
  /\ [](Constructed => Len(vm.callStack) >= 1)
  /\ [][AboutTo(return) =>
          IF Len(vm.callStack) > 1
            THEN /\ vm'.callStack = SubSeq(vm.callStack, 1, Len(vm.callStack) - 1)
                 /\ ~vm'.halted
            ELSE /\ Len(vm'.callStack) = 1
                 /\ vm'.callStack[1].code = vm.callStack[1].code
                 /\ vm'.halted]_vars
  /\ [][(Running /\ vm'.halted) =>
          (peekByte(vm) = return /\ Len(vm.callStack) = 1)]_vars

\* `def f() { 0 }  f()` has run to the end: the callee's return discarded
\* its frame, the return of the top-level code halted the VM
C11_Witness ==
  /\ pc = "done"
  /\ program = <<FuncDecl("f", <<>>, <<IntLit(0)>>), Invoke(F, <<>>)>>
  /\ vm.halted
  /\ Len(vm.callStack) = 1
  /\ result = NumberValue(0)

\* the program is a sequence of integer and string literals
LiteralProgram ==
  \A i \in 1..Len(program) : program[i].type \in {"intLit", "stringLit"}

\* the value a literal denotes
LiteralValue(node) ==
  IF node.type = "intLit" THEN NumberValue(node.value) ELSE StringValue(node.strValue)

\* C12: a program that is a non-empty sequence of literals compiles, runs
\* without a failure and returns the value of its last literal; and run()
\* returns nil when the stack is empty at the halt.
C12_LiteralRoundTrip ==
  /\ []((LiteralProgram /\ program # <<>>) =>
          /\ pc \notin {"compileError", "vmError"}
          /\ pc = "done" => result = LiteralValue(program[Len(program)]))
  /\ [][(pc = "running" /\ vm.halted /\ vm.stack = <<>>) =>
          (pc' = "done" /\ result' = nilValue)]_vars

\* `'a' 1 3` has returned 3, a number of the constant pool, after the
\* values of the earlier literals were popped
C12_Witness ==
  /\ pc = "done"
  /\ program = <<StrA, IntLit(1), IntLit(3)>>
  /\ result = NumberValue(3)
  /\ vm.stack = <<>>

\* the program without a statement has returned nil from an empty stack
C12_EmptyHalt ==
  pc = "done" /\ program = <<>> /\ result = nilValue

\* an expression, or a block, contains an invocation
RECURSIVE HasInvoke(_)
HasInvoke(n) ==
  CASE n.type \in {"intLit", "stringLit", "ident"} -> FALSE
    [] n.type = "unary" -> HasInvoke(n.expr)
    [] n.type = "binary" -> HasInvoke(n.left) \/ HasInvoke(n.right)
    [] n.type = "invoke" -> TRUE
    [] n.type = "valDecl" -> HasInvoke(n.init)
    [] n.type = "print" -> HasInvoke(n.expr)
    [] n.type = "funcDecl" -> \E i \in 1..Len(n.body) : HasInvoke(n.body[i])

\* the number of bindings a block declares
DeclCount(nodes) ==
  Cardinality({i \in 1..Len(nodes) : nodes[i].type \in {"valDecl", "funcDecl"}})

\* the declarations compiled to this code
DeclsOfCode(code) ==
  {FuncDeclsOf(program)[k] :
     k \in {j \in 1..Len(FunctionConstants) : FunctionConstants[j].val.code = code}}

\* the top-level code is about to execute its final return
TopLevelBlockDone ==
  /\ AboutTo(return)
  /\ Len(vm.callStack) = 1
  /\ currentFrame(vm).ip = Len(currentFrame(vm).code) - 1

\* a callee is about to execute the store 0 that follows its body block
BodyBlockDone == AboutTo(store) /\ Len(vm.callStack) >= 2

\* C13: a block that executes no invocation leaves the stack one value
\* deeper than it found it, the slots of its declarations not counted: the
\* top-level block starts on the empty stack, a function body on the stack
\* up to the last argument (stackOffset + 1 + the invoke's argument count).
C13_BlockLeavesOneValue ==
  /\ (TopLevelBlockDone /\ \A i \in 1..Len(program) : ~HasInvoke(program[i])) =>
       Len(vm.stack) = DeclCount(program) + 1
  /\ BodyBlockDone =>
       LET caller == vm.callStack[Len(vm.callStack) - 1]
           argc == caller.code[caller.ip]
       IN  \A d \in DeclsOfCode(currentFrame(vm).code) :
             ~HasInvoke(d) =>
               Len(vm.stack) = currentFrame(vm).stackOffset + 1 + argc + DeclCount(d.body) + 1

\* the stack index a store about to be executed writes: stackOffset + slot
StoreIndex ==
  currentFrame(vm).stackOffset + currentFrame(vm).code[currentFrame(vm).ip + 2]

\* C14: a store whose index stackOffset + slot is within the stack succeeds,
\* leaving the stack one element shorter with the popped value at that
\* index; a store whose index is not within the stack fails and leaves the
\* stack unchanged.
C14_Store ==
  [][AboutTo(store) =>
       IF 0 <= StoreIndex /\ StoreIndex < Len(vm.stack)
         THEN /\ vm'.err = ""
              /\ Len(vm'.stack) = Len(vm.stack) - 1
              /\ StoreIndex < Len(vm'.stack)
              /\ vm'.stack[StoreIndex + 1] = Top(vm.stack)
         ELSE /\ vm'.err # ""
              /\ vm'.stack = vm.stack]_vars

Opcodes == const0..return

\* the positions (0-based) a walk of the code from position ip on takes for
\* opcodes, each opcode followed by the operand count of opcodeMeta
RECURSIVE OpStartsFrom(_, _)
OpStartsFrom(code, ip) ==
  IF ip >= Len(code) THEN {}
  ELSE IF code[ip + 1] \notin Opcodes THEN {ip}
  ELSE {ip} \cup OpStartsFrom(code, ip + 1 + opcodeMeta[code[ip + 1]])

OpStarts(code) == OpStartsFrom(code, 0)

\* code is a concatenation of opcodes with their operands, the last of them
\* a return
WellFormed(code) ==
  /\ code # <<>>
  /\ \A ip \in OpStarts(code) :
       /\ code[ip + 1] \in Opcodes
       /\ ip + opcodeMeta[code[ip + 1]] < Len(code)
  /\ Len(code) - 1 \in OpStarts(code)
  /\ code[Len(code)] = return

\* C15: the top-level code and the code of every function constant are
\* well-formed; the ip of every frame is at an opcode or at the end of its
\* code, the ip of the frame about to execute at an opcode; and an
\* instruction moves the ip of its frame past the opcode and exactly the
\* operands opcodeMeta gives it.
C15_WellFormedStream ==
  /\ [](Compiled =>
          /\ WellFormed(compiler.code)
          /\ \A k \in 1..Len(FunctionConstants) :
               WellFormed(FunctionConstants[k].val.code))
  /\ [](Constructed =>
          /\ \A i \in 1..Len(vm.callStack) :
               vm.callStack[i].ip \in OpStarts(vm.callStack[i].code)
                                         \cup {Len(vm.callStack[i].code)}
          /\ Running => currentFrame(vm).ip \in OpStarts(currentFrame(vm).code))
  /\ [][Running =>
          LET n == Len(vm.callStack)
          IN  /\ peekByte(vm) \in Opcodes
              /\ Len(vm'.callStack) >= n =>
                   vm'.callStack[n].ip
                     = currentFrame(vm).ip + 1 + opcodeMeta[peekByte(vm)]]_vars

\* a callee's frame is about to execute a load, an opcode with an operand,
\* after other instructions of its code
C15_Witness ==
  /\ AboutTo(load)
  /\ Len(vm.callStack) = 2
  /\ currentFrame(vm).ip > 0

\* the depth to which the function declarations of a block are nested
RECURSIVE NestingDepth(_)
NestingDepth(nodes) ==
  LET depths == {1 + NestingDepth(nodes[i].body) :
                   i \in {j \in 1..Len(nodes) : nodes[j].type = "funcDecl"}}
  IN  IF depths = {} THEN 0 ELSE CHOOSE d \in depths : \A e \in depths : e <= d

\* an invoke is about to be executed with a function value among its
\* arguments, the values below the target
FunctionArgument ==
  /\ AboutTo(invoke)
  /\ LET n == currentFrame(vm).code[currentFrame(vm).ip + 2]
         len == Len(vm.stack)
     IN  \E i \in 1..len : /\ len - n <= i
                            /\ i < len
                            /\ vm.stack[i].type = "function"

\* the run command has ended: run() returned, or compile() or the VM threw
Terminated == pc \in {"done", "vmError", "compileError"}

====
